---- MODULE Spec2Model ----
(***************************************************************************)
(* A model of pylint_per_file_ignores/__init__.py: the plugin that reads   *)
(* a table of per-file ignores from pyproject.toml, wraps every visit      *)
(* method of the checker owning a rule (augment_all_visit) and, around     *)
(* each wrapped visit, patches linter.add_message with a buffering         *)
(* stand-in (Suppress) whose exit replays what was not suppressed.         *)
(*                                                                         *)
(* Strings are sequences of tokens (a token stands for a run of            *)
(* characters), so that split, strip, as_posix and re.search are computed  *)
(* and not assumed.  Several linters are driven by the same host events:   *)
(* linter l has had register called on it l times (linter 0 is the         *)
(* unaugmented one), which is how a run is compared with the run of the    *)
(* same visits under fewer registrations.                                  *)
(***************************************************************************)
EXTENDS Integers, Sequences, FiniteSets, TLC

(***************************************************************************)
(* Bounds of the model.                                                    *)
(***************************************************************************)
\* register is called at most MaxRegister times on one linter
MaxRegister == 2
\* the original check logic emits at most MaxEmit messages in one callback
MaxEmit == 2

(***************************************************************************)
(* Strings, sequences.                                                     *)
(***************************************************************************)

RECURSIVE SeqsUpTo(_, _)
SeqsUpTo(S, n) ==
    IF n = 0 THEN { << >> }
    ELSE LET shorter == SeqsUpTo(S, n - 1)
         IN  shorter \cup { Append(s, x) : s \in shorter, x \in S }

Range(s) == { s[i] : i \in 1..Len(s) }

\* str.split(","): the pieces between the "," tokens
RECURSIVE Split(_)
Split(s) ==
    IF \A i \in 1..Len(s) : s[i] # ","
    THEN << s >>
    ELSE LET i == CHOOSE j \in 1..Len(s) :
                      s[j] = "," /\ \A k \in 1..(j - 1) : s[k] # ","
         IN  << SubSeq(s, 1, i - 1) >> \o Split(SubSeq(s, i + 1, Len(s)))

\* str.strip(): leading and trailing blanks removed
RECURSIVE Strip(_)
Strip(s) ==
    IF s = << >> THEN s
    ELSE IF Head(s) = " " THEN Strip(Tail(s))
    ELSE IF s[Len(s)] = " " THEN Strip(SubSeq(s, 1, Len(s) - 1))
    ELSE s

(***************************************************************************)
(* Paths.  A path is [abs, parts]; a part (a name) is a string.            *)
(***************************************************************************)
RelPath(parts) == [abs |-> FALSE, parts |-> parts]
AbsPath(parts) == [abs |-> TRUE, parts |-> parts]

\* pathlib's Path(src).parents: the lexical parents, nearest first; those of a
\* relative path end at "." (RelPath(<<>>)), those of an absolute one at "/"
Parents(p) ==
    [ i \in 1..Len(p.parts) |->
        [abs |-> p.abs, parts |-> SubSeq(p.parts, 1, Len(p.parts) - i)] ]

\* the working directory of the process, against which the operating system
\* resolves a relative path
Cwd == AbsPath(<< <<"proj">> >>)

Resolve(p) == IF p.abs THEN p ELSE AbsPath(Cwd.parts \o p.parts)

\* Path.as_posix(): the parts joined by "/"
RECURSIVE JoinParts(_)
JoinParts(parts) ==
    IF parts = << >> THEN << >>
    ELSE IF Len(parts) = 1 THEN parts[1]
    ELSE parts[1] \o <<"/">> \o JoinParts(Tail(parts))

as_posix(p) ==
    IF p.abs THEN <<"/">> \o JoinParts(p.parts)
    ELSE IF p.parts = << >> THEN <<".">>
    ELSE JoinParts(p.parts)

(***************************************************************************)
(* re.search(pattern, string, re.VERBOSE) on token strings: ".*" matches   *)
(* any run of tokens, "." any one token, an escaped token its literal, a   *)
(* blank is skipped (verbose mode), any other token matches itself.        *)
(***************************************************************************)
Unescape(t) == IF t = "\\.py" THEN ".py" ELSE t

RECURSIVE MatchHere(_, _)
MatchHere(pat, s) ==
    IF pat = << >> THEN TRUE
    ELSE IF Head(pat) = " " THEN MatchHere(Tail(pat), s)
    ELSE IF Head(pat) = ".*"
         THEN \E i \in 1..(Len(s) + 1) : MatchHere(Tail(pat), SubSeq(s, i, Len(s)))
    ELSE IF s = << >> THEN FALSE
    ELSE IF Head(pat) = "." THEN MatchHere(Tail(pat), Tail(s))
    ELSE /\ Unescape(Head(pat)) = Head(s)
         /\ MatchHere(Tail(pat), Tail(s))

re_search(pat, s) == \E i \in 1..(Len(s) + 1) : MatchHere(pat, SubSeq(s, i, Len(s)))

(***************************************************************************)
(* The host: message definitions, checkers, the message store.             *)
(***************************************************************************)
\* Python's None: among checkers, among strings, among paths and documents
None == "None"
NoneStr == <<"<None>">>
Nothing == [none |-> TRUE]

Id1 == <<"C0114">>
Sym1 == <<"missing-docstring">>
Id2 == <<"W0611">>
Sym2 == <<"unused-import">>
Id3 == <<"R0903">>
Sym3 == <<"too-few-public-methods">>

Def1 == [msgid |-> Id1, symbol |-> Sym1]
Def2 == [msgid |-> Id2, symbol |-> Sym2]
Def3 == [msgid |-> Id3, symbol |-> Sym3]
MessageDefinitions == {Def1, Def2, Def3}

\* linter.get_checkers(), in order, and each checker's msgs table
Checkers == <<"A", "B">>
msgs(checker) == IF checker = "A" THEN {Def1, Def2} ELSE {Def3}

\* dir(checker): the callbacks of each checker
VisitFunctionDef == <<"visit", "_functiondef">>
LeaveFunctionDef == <<"leave", "_functiondef">>
VisitClassDef == <<"visit", "_classdef">>
dir(checker) ==
    IF checker = "A" THEN {VisitFunctionDef, LeaveFunctionDef}
    ELSE IF checker = "B" THEN {VisitClassDef}
    ELSE {}
Attrs == UNION { { <<c, m>> : m \in dir(c) } : c \in Range(Checkers) }

\* str.startswith("visit")
startswith_visit(method) == method # << >> /\ Head(method) = "visit"

\* A message store: the lookup methods it offers (its pylint version) and the
\* definitions each of them knows; a lookup of anything else raises
\* UnknownMessageError.
Store(api, known) == [api |-> api, known |-> [m \in api |-> known]]
StoreCurrent == Store({"get_message_definitions"}, MessageDefinitions)
StoreOld == Store({"check_message_id", "get_message_definition"}, {Def2, Def3})
StoreBare == Store({}, MessageDefinitions)
Stores == {StoreCurrent, StoreOld, StoreBare}

\* Stores of other versions.  C0111 is the identifier missing-docstring had
\* before C0114; a definition may have no symbol.
DefOld1 == [msgid |-> <<"C0111">>, symbol |-> Sym1]
DefNoSym == [msgid |-> Id2, symbol |-> NoneStr]
\* all three methods, each of them knowing other definitions
StoreAllThree ==
    [api |-> {"check_message_id", "get_message_definition", "get_message_definitions"},
     known |-> [m \in {"check_message_id", "get_message_definition",
                       "get_message_definitions"} |->
                  IF m = "check_message_id" THEN {DefNoSym, Def3}
                  ELSE IF m = "get_message_definition" THEN {Def1, Def3}
                  ELSE {Def1, DefOld1, Def2, Def3}]]
\* the two later methods
StoreLastTwo ==
    [api |-> {"get_message_definition", "get_message_definitions"},
     known |-> [m \in {"get_message_definition", "get_message_definitions"} |->
                  IF m = "get_message_definition" THEN {DefNoSym, Def3}
                  ELSE {Def1, Def2, Def3}]]
\* get_message_definitions alone, with two definitions under one symbol
StorePlural == Store({"get_message_definitions"}, {Def1, DefOld1, DefNoSym, Def3})
ResolverStores ==
    {StoreCurrent, StoreOld, StoreBare, StoreAllThree, StoreLastTwo, StorePlural}

(***************************************************************************)
(* The file system and the manifests.  A manifest is a TOML document:      *)
(* whether it has [tool], whether it has [tool.pylint-per-file-ignores],   *)
(* and that table's entries in file order.                                 *)
(***************************************************************************)
PatFoo == <<"foo", "/", ".*", "\\.py">>
PatBaz == <<"baz", "/">>

Entry(k, v) == [key |-> k, value |-> v]
Doc(entries) == [tool |-> TRUE, table |-> TRUE, entries |-> entries]
DocNoTool == [tool |-> FALSE, table |-> FALSE, entries |-> << >>]
DocNoTable == [tool |-> TRUE, table |-> FALSE, entries |-> << >>]
\* "foo/.*\.py" = "C0114"
DocOne == Doc(<< Entry(PatFoo, Id1) >>)
\* "foo/.*\.py" = "missing-docstring, W0611" and "baz/" = "R0903"
DocTwo == Doc(<< Entry(PatFoo, Sym1 \o <<",", " ">> \o Id2), Entry(PatBaz, Id3) >>)
\* missing-docstring = "foo/.*\.py"
DocRuleKeyed == Doc(<< Entry(Sym1, PatFoo) >>)
\* "foo/.*\.py" = "C0114" and "baz/" = "C0114"
DocSame == Doc(<< Entry(PatFoo, Id1), Entry(PatBaz, Id1) >>)
\* "foo/.*\.py" = "X9999,C0114", where no checker has a message X9999
IdNone == <<"X9999">>
DocUnowned == Doc(<< Entry(PatFoo, IdNone \o <<",">> \o Id1) >>)
Docs == {DocNoTool, DocNoTable, DocOne, DocTwo, DocRuleKeyed, DocSame, DocUnowned}

Root == AbsPath(<< >>)
DirFoo == AbsPath(Cwd.parts \o << <<"foo">> >>)
DirBaz == AbsPath(Cwd.parts \o << <<"baz">> >>)
Dirs == {Root, Cwd, DirFoo, DirBaz}

NoFs == [d \in Dirs |-> Nothing]
OnlyAt(d, doc) == [NoFs EXCEPT ![d] = doc]

FileFoo == RelPath(<< <<"foo">>, <<"bar", ".py">> >>)
FileBaz == RelPath(<< <<"baz">>, <<"bar", ".py">> >>)
Files == {FileFoo, FileBaz}

(***************************************************************************)
(* What the original check logic of a callback does on a node: it calls    *)
(* linter.add_message some times and then returns or raises.               *)
(***************************************************************************)
Emission(args, kwargs) == [args |-> args, kwargs |-> kwargs]
\* add_message("C0114", node=n)
EmitId1 == Emission(<<Id1>>, {<<"node", <<"n">>>>})
\* add_message("missing-docstring")
EmitSym1 == Emission(<<Sym1>>, {})
\* add_message("W0611")
EmitId2 == Emission(<<Id2>>, {})
\* add_message(msgid="C0114")
EmitKwId1 == Emission(<< >>, {<<"msgid", Id1>>})
\* add_message("R0903")
EmitId3 == Emission(<<Id3>>, {})

Emissions(checker) ==
    IF checker = "A" THEN {EmitId1, EmitSym1, EmitId2, EmitKwId1} ELSE {EmitId3}

Nodes(checker) ==
    { [emits |-> e, raises |-> r] : e \in SeqsUpTo(Emissions(checker), MaxEmit),
                                    r \in BOOLEAN }

\* the identifier of an emission, wherever the caller passed it
MsgIdOf(m) ==
    IF m.args # << >> THEN m.args[1]
    ELSE IF \E kv \in m.kwargs : kv[1] = "msgid"
         THEN (CHOOSE kv \in m.kwargs : kv[1] = "msgid")[2]
    ELSE NoneStr

(***************************************************************************)
(* The plugin's functions.                                                 *)
(***************************************************************************)
\* (directory / "pyproject.toml").is_file()
is_file(files, directory) ==
    /\ Resolve(directory) \in DOMAIN files
    /\ files[Resolve(directory)] # Nothing

\* find_pyproject(src): the first of Path(src).parents that holds a
\* pyproject.toml, else ValueError
find_pyproject(files, src) ==
    LET parents == Parents(src)
        hits == { i \in 1..Len(parents) : is_file(files, parents[i]) }
    IN  IF hits = {}
        THEN [exc |-> "ValueError", pyproject |-> Nothing]
        ELSE [exc |-> "none",
              pyproject |-> parents[CHOOSE i \in hits : \A j \in hits : i <= j]]

\* as get_checker_by_msg, were a checker returned when none owns the message
get_checker_or_first(msg) ==
    LET owners == { i \in 1..Len(Checkers) :
                      \E d \in msgs(Checkers[i]) : msg = d.msgid \/ msg = d.symbol }
    IN  IF owners = {} THEN Checkers[1]
        ELSE Checkers[CHOOSE i \in owners : \A j \in owners : i <= j]

\* get_checker_by_msg(linter, msg): the first checker whose msgs has msg as a
\* key (message id) or as value[1] (symbol), else None
get_checker_by_msg(msg) ==
    LET owners == { i \in 1..Len(Checkers) :
                      \E d \in msgs(Checkers[i]) : msg = d.msgid \/ msg = d.symbol }
    IN  IF owners = {} THEN None
        ELSE Checkers[CHOOSE i \in owners : \A j \in owners : i <= j]

\* a set as a list
RECURSIVE SetToSeq(_)
SetToSeq(S) ==
    IF S = {} THEN << >>
    ELSE LET x == CHOOSE y \in S : TRUE IN << x >> \o SetToSeq(S \ {x})

\* a lookup method of the message store: the definitions it finds, one of them
\* for check_message_id and get_message_definition, the list of them for
\* get_message_definitions; UnknownMessageError when it finds none
StoreLookup(store, method, id) ==
    LET found == { d \in store.known[method] : id = d.msgid \/ id = d.symbol }
    IN  IF found = {}
        THEN [exc |-> "UnknownMessageError", value |-> << >>]
        ELSE IF method = "get_message_definitions"
        THEN [exc |-> "none", value |-> SetToSeq(found)]
        ELSE [exc |-> "none", value |-> << CHOOSE d \in found : TRUE >>]

\* as get_message_definitions, were the newest method tried first
get_message_definitions_newest_first(store, message_id_or_symbol) ==
    IF "get_message_definitions" \in store.api
    THEN StoreLookup(store, "get_message_definitions", message_id_or_symbol)
    ELSE IF "get_message_definition" \in store.api
    THEN StoreLookup(store, "get_message_definition", message_id_or_symbol)
    ELSE IF "check_message_id" \in store.api
    THEN StoreLookup(store, "check_message_id", message_id_or_symbol)
    ELSE [exc |-> "ValueError", value |-> << >>]

\* DoSuppress.get_message_definitions: the list of what the first method the
\* store has returns; the one definition of the two older methods is put in a
\* list
get_message_definitions(store, message_id_or_symbol) ==
    IF "check_message_id" \in store.api
    THEN StoreLookup(store, "check_message_id", message_id_or_symbol)
    ELSE IF "get_message_definition" \in store.api
    THEN StoreLookup(store, "get_message_definition", message_id_or_symbol)
    ELSE IF "get_message_definitions" \in store.api
    THEN StoreLookup(store, "get_message_definitions", message_id_or_symbol)
    ELSE [exc |-> "ValueError", value |-> << >>]

\* the (msgid, symbol) of every definition, without the None ones
RECURSIVE the_symbols(_)
the_symbols(pylint_messages) ==
    IF pylint_messages = << >> THEN << >>
    ELSE SelectSeq(<< Head(pylint_messages).msgid, Head(pylint_messages).symbol >>,
                   LAMBDA symbol : symbol # NoneStr)
         \o the_symbols(Tail(pylint_messages))

\* as UnknownFallback, were the unknown identifier to resolve to no symbol
FallbackEmpty(message_id_or_symbol) == << >>

\* what the except clause of DoSuppress.symbols returns
UnknownFallback(message_id_or_symbol) == << message_id_or_symbol >>

\* DoSuppress.symbols
symbols(store, message_id_or_symbol) ==
    LET pylint_messages == get_message_definitions(store, message_id_or_symbol)
    IN  IF pylint_messages.exc = "UnknownMessageError"
        THEN [exc |-> "none", value |-> UnknownFallback(message_id_or_symbol)]
        ELSE IF pylint_messages.exc # "none"
        THEN [exc |-> pylint_messages.exc, value |-> << >>]
        ELSE [exc |-> "none", value |-> the_symbols(pylint_messages.value)]

\* IsFile.__call__
IsFile(file_string, file) == re_search(file_string, as_posix(file))

\* DoSuppress(linter, message_id, test_func) with test_func = IsFile(file_string)
DoSuppress(message_id_or_symbol, file_string) ==
    [message_id_or_symbol |-> message_id_or_symbol, file_string |-> file_string]

\* as augment_all_visit, were the wrapper made around the checker's own method
\* and not around the attribute as it is now (an earlier wrapper is dropped)
augment_all_visit_unwrapping(methods, message_id_or_symbol, augmentation) ==
    LET checker == get_checker_by_msg(message_id_or_symbol)
    IN  [ a \in DOMAIN methods |->
            IF a[1] = checker /\ a[2] \in dir(checker) /\ startswith_visit(a[2])
            THEN << augmentation >>
            ELSE methods[a] ]

\* as augment_all_visit, were every attribute of the checker wrapped
augment_all_visit_every_attribute(methods, message_id_or_symbol, augmentation) ==
    LET checker == get_checker_by_msg(message_id_or_symbol)
    IN  [ a \in DOMAIN methods |->
            IF a[1] = checker /\ a[2] \in dir(checker)
            THEN Append(methods[a], augmentation)
            ELSE methods[a] ]

\* augment_all_visit on the table of one linter's checker methods: each maps
\* to the augmentations wrapped around the original method, innermost first
augment_all_visit(methods, message_id_or_symbol, augmentation) ==
    LET checker == get_checker_by_msg(message_id_or_symbol)
    IN  [ a \in DOMAIN methods |->
            IF a[1] = checker /\ a[2] \in dir(checker) /\ startswith_visit(a[2])
            THEN Append(methods[a], augmentation)
            ELSE methods[a] ]

\* disable_message
disable_message(methods, message_id, file_string) ==
    augment_all_visit(methods, message_id, DoSuppress(message_id, file_string))

\* the inner loop of register: for rule in rules.split(",")
RECURSIVE DisableRules(_, _, _)
DisableRules(methods, file_path, rules) ==
    IF rules = << >> THEN methods
    ELSE DisableRules(disable_message(methods, Strip(Head(rules)), file_path),
                      file_path, Tail(rules))

\* as DisableAll, were an entry read as rule = "pattern, ..."
RECURSIVE DisableAllRuleKeyed(_, _)
DisableAllRuleKeyed(methods, ignores) ==
    IF ignores = << >> THEN methods
    ELSE LET patterns == Split(Head(ignores).value)
             RECURSIVE each(_, _)
             each(ms, ps) ==
                 IF ps = << >> THEN ms
                 ELSE each(disable_message(ms, Strip(Head(ignores).key), Strip(Head(ps))),
                           Tail(ps))
         IN  DisableAllRuleKeyed(each(methods, patterns), Tail(ignores))

\* the outer loop of register: for file_path, rules in ignores.items()
RECURSIVE DisableAll(_, _)
DisableAll(methods, ignores) ==
    IF ignores = << >> THEN methods
    ELSE DisableAll(DisableRules(methods, Head(ignores).key, Split(Head(ignores).value)),
                    Tail(ignores))

\* as IgnoresOf, were a missing table read as an empty one
\* (content.get("tool", {}).get("pylint-per-file-ignores", {}))
IgnoresOrEmpty(content) == [exc |-> "none", ignores |-> content.entries]

\* content["tool"]["pylint-per-file-ignores"]
IgnoresOf(content) ==
    IF content.tool /\ content.table
    THEN [exc |-> "none", ignores |-> content.entries]
    ELSE [exc |-> "KeyError", ignores |-> << >>]

\* register(linter)
register(methods, files, file) ==
    LET found == find_pyproject(files, file)
    IN  IF found.exc # "none"
        THEN [exc |-> found.exc, pyproject |-> Nothing, methods |-> methods]
        ELSE LET ignores == IgnoresOf(files[Resolve(found.pyproject)])
             IN  [exc |-> ignores.exc,
                  pyproject |-> found.pyproject,
                  methods |-> DisableAll(methods, ignores.ignores)]

(***************************************************************************)
(* The state.                                                              *)
(***************************************************************************)
VARIABLES
    files,         \* the file system: directory -> its pyproject.toml or Nothing
    msgs_store,    \* the host's message store
    current_file,  \* linter.current_file
    phase,         \* "load": plugins are being loaded; "lint": files are linted
    nreg,          \* per linter: how many times register was called on it
    loaded,        \* per linter: the outcome of its last register call
    methods,       \* per linter: checker method -> its augmentations, innermost first
    add_message,   \* per linter: linter.add_message: 0 is the host's own method,
                   \* i > 0 the stand-in of the Suppress object of frame i
    call,          \* the callback the host is invoking, with its node
    turn,          \* the linter on which the callback is being run
    stack,         \* the active DoSuppress.__call__ frames, outermost first
    pending,       \* the exception propagating, or "none"
    delivered,     \* per linter: what the host's own add_message received
    result,        \* per linter: how the callback ended
    ran,           \* per linter: how many times the original method body ran
    scopes         \* per linter: how many Suppress scopes were entered

vars == << files, msgs_store, current_file, phase, nreg, loaded, methods,
           add_message, call, turn, stack, pending, delivered, result, ran, scopes >>

Linters == 0..MaxRegister
Idle == MaxRegister + 1

NotLoaded == [exc |-> "none", src |-> Nothing, pyproject |-> Nothing]
Unwrapped == [a \in Attrs |-> << >>]

InitLinters ==
    /\ phase = "load"
    /\ nreg = [l \in Linters |-> 0]
    /\ loaded = [l \in Linters |-> NotLoaded]
    /\ methods = [l \in Linters |-> Unwrapped]
    /\ add_message = [l \in Linters |-> 0]
    /\ call = Nothing
    /\ turn = Idle
    /\ stack = << >>
    /\ pending = "none"
    /\ delivered = [l \in Linters |-> << >>]
    /\ result = [l \in Linters |-> "none"]
    /\ ran = [l \in Linters |-> 0]
    /\ scopes = [l \in Linters |-> 0]

\* The project of the lint runs: a manifest in the working directory, or none.
LintFileSystems == { OnlyAt(Cwd, doc) : doc \in Docs } \cup { NoFs }

Init ==
    /\ files \in LintFileSystems
    /\ msgs_store \in Stores
    /\ current_file = FileFoo
    /\ InitLinters

(***************************************************************************)
(* Loading the plugin.                                                     *)
(***************************************************************************)
\* The host calls register(linter) on linter l, at most l times.
Register(l) ==
    /\ phase = "load"
    /\ nreg[l] < l
    /\ loaded[l].exc = "none"
    /\ LET r == register(methods[l], files, current_file)
       IN  /\ loaded' = [loaded EXCEPT ![l] =
                            [exc |-> r.exc, src |-> current_file, pyproject |-> r.pyproject]]
           /\ methods' = [methods EXCEPT ![l] = r.methods]
    /\ nreg' = [nreg EXCEPT ![l] = @ + 1]
    /\ UNCHANGED << files, msgs_store, current_file, phase, add_message, call, turn,
                    stack, pending, delivered, result, ran, scopes >>

\* Every plugin is loaded: the host starts linting.
StartLint ==
    /\ phase = "load"
    /\ \A l \in Linters : nreg[l] = l /\ loaded[l].exc = "none"
    /\ phase' = "lint"
    /\ UNCHANGED << files, msgs_store, current_file, nreg, loaded, methods, add_message,
                    call, turn, stack, pending, delivered, result, ran, scopes >>

(***************************************************************************)
(* Linting: the host invokes a callback of a checker on a node, on each    *)
(* linter in turn.                                                         *)
(***************************************************************************)
NoLogs ==
    /\ delivered' = [l \in Linters |-> << >>]
    /\ result' = [l \in Linters |-> "none"]
    /\ ran' = [l \in Linters |-> 0]
    /\ scopes' = [l \in Linters |-> 0]

\* The host moves to another file.
SetCurrentFile(f) ==
    /\ phase = "lint"
    /\ turn = Idle
    /\ f # current_file
    /\ current_file' = f
    /\ call' = Nothing
    /\ NoLogs
    /\ UNCHANGED << files, msgs_store, phase, nreg, loaded, methods, add_message,
                    turn, stack, pending >>

\* The host invokes callback a of its checker on node n.
HostCall(a, n) ==
    /\ phase = "lint"
    /\ turn = Idle
    /\ call' = [checker |-> a[1], method |-> a[2], node |-> n]
    /\ turn' = 0
    /\ NoLogs
    /\ UNCHANGED << files, msgs_store, current_file, phase, nreg, loaded, methods,
                    add_message, stack, pending >>

Running == phase = "lint" /\ turn \in Linters
Top == stack[Len(stack)]
\* the augmentations around the invoked callback on the running linter
Layers == methods[turn][<< call.checker, call.method >>]

\* A call is about to be made: by the host (nothing is on the stack), or by
\* chain() of the innermost active DoSuppress.__call__.
CanCall ==
    /\ Running
    /\ \/ stack = << >> /\ result[turn] = "none"
       \/ stack # << >> /\ Top.pc = "chain"
\* what is called: augmentation layer Callee, or with 0 the original method
Callee == IF stack = << >> THEN Len(Layers) ELSE Top.layer - 1

\* The call returns or raises to whoever made it: to the host, which moves to
\* the next linter, or to the with block of the caller, which then exits.
Return(l, stk, exc) ==
    IF stk = << >>
    THEN /\ result' = [result EXCEPT ![l] = IF exc = "none" THEN "returned" ELSE exc]
         /\ turn' = l + 1
         /\ pending' = "none"
         /\ stack' = stk
    ELSE /\ stack' = [stk EXCEPT ![Len(stk)].pc = "exit"]
         /\ pending' = exc
         /\ UNCHANGED << result, turn >>

\* as Emit, were the stand-in to pass each message on to the host as well as
\* buffering it
EmitAndForward(target, stk, out, ms) ==
    IF target \in 1..Len(stk)
    THEN [stack |-> [stk EXCEPT ![target].buffer = @ \o ms], delivered |-> out \o ms]
    ELSE [stack |-> stk, delivered |-> out \o ms]

\* linter.add_message(*args, **kwargs) for each of ms in order, whatever
\* linter.add_message is now: the host's method, or Suppress.add_message of
\* the scope of frame target (a scope that is gone keeps what it gets to itself)
Emit(target, stk, out, ms) ==
    IF target = 0 THEN [stack |-> stk, delivered |-> out \o ms]
    ELSE IF target \in 1..Len(stk)
    THEN [stack |-> [stk EXCEPT ![target].buffer = @ \o ms], delivered |-> out]
    ELSE [stack |-> stk, delivered |-> out]

\* The original method of the checker runs on the node: Chain.__call__ of the
\* innermost augmentation, or the host's call of a method that is not wrapped.
CallOriginal ==
    /\ CanCall
    /\ Callee = 0
    /\ LET e == Emit(add_message[turn], stack, delivered[turn], call.node.emits)
       IN  /\ delivered' = [delivered EXCEPT ![turn] = e.delivered]
           /\ Return(turn, e.stack, IF call.node.raises THEN "CheckError" ELSE "none")
    /\ ran' = [ran EXCEPT ![turn] = @ + 1]
    /\ UNCHANGED << files, msgs_store, current_file, phase, nreg, loaded, methods,
                    add_message, call, scopes >>

\* Suppress.suppress(*symbols)
suppress(_suppress, the_syms) == _suppress \o the_syms

\* as AfterSuppress, were chain() written inside the if of the test
AfterSuppressOnlyIfTest(test, exc) ==
    IF exc = "none" /\ test THEN "chain" ELSE "exit"

\* where DoSuppress.__call__ goes after the if statement: on to chain(), or
\* out of the with block when self.symbols raised
AfterSuppress(test, exc) == IF exc = "none" THEN "chain" ELSE "exit"

\* AugmentFunc.__call__ and DoSuppress.__call__ up to chain(): a Suppress is
\* made and entered, the test function runs, the symbols are suppressed.
DoSuppressCall ==
    /\ CanCall
    /\ Callee >= 1
    /\ LET aug == Layers[Callee]
           test == IsFile(aug.file_string, current_file)
           syms == IF test THEN symbols(msgs_store, aug.message_id_or_symbol)
                   ELSE [exc |-> "none", value |-> << >>]
           frame == [layer |-> Callee,
                     test |-> test,
                     _orig_add_message |-> add_message[turn],
                     _suppress |-> suppress(<< >>, syms.value),
                     buffer |-> << >>,
                     replayed |-> << >>,
                     k |-> 0,
                     pc |-> AfterSuppress(test, syms.exc)]
           caller == IF stack = << >> THEN stack
                     ELSE [stack EXCEPT ![Len(stack)].pc = "called"]
       IN  /\ stack' = Append(caller, frame)
           /\ add_message' = [add_message EXCEPT ![turn] = Len(stack) + 1]
           /\ pending' = syms.exc
    /\ scopes' = [scopes EXCEPT ![turn] = @ + 1]
    /\ UNCHANGED << files, msgs_store, current_file, phase, nreg, loaded, methods,
                    call, turn, delivered, result, ran >>

\* as Restored, were the restoring skipped when the with block raised (a
\* plain s.__exit__() call after chain() instead of the with statement)
RestoredUnlessRaised(_orig_add_message, current, exc) ==
    IF exc = "none" THEN _orig_add_message ELSE current

\* as Restored, were the linter given its own method back whatever was saved
RestoredToHost(_orig_add_message, current, exc) == 0

\* what Suppress.__exit__ sets linter.add_message to
Restored(_orig_add_message, current, exc) == _orig_add_message

\* Suppress.__exit__, its first statement: linter.add_message is restored.
ExitRestore ==
    /\ Running
    /\ stack # << >>
    /\ Top.pc = "exit"
    /\ add_message' = [add_message EXCEPT ![turn] =
                          Restored(Top._orig_add_message, @, pending)]
    /\ stack' = [stack EXCEPT ![Len(stack)].pc = "replay", ![Len(stack)].k = 1]
    /\ UNCHANGED << files, msgs_store, current_file, phase, nreg, loaded, methods,
                    call, turn, pending, delivered, result, ran, scopes >>

\* to_append_args[0] in self._suppress
IsSuppressed(to_append_args, _suppress) == to_append_args[1] \in Range(_suppress)

\* Suppress.__exit__, one turn of its loop over the buffered messages.
ExitReplay ==
    /\ Running
    /\ stack # << >>
    /\ Top.pc = "replay"
    /\ Top.k <= Len(Top.buffer)
    /\ LET m == Top.buffer[Top.k]
           next == [stack EXCEPT ![Len(stack)].k = @ + 1]
       IN  IF m.args = << >>
           THEN \* to_append_args[0] of an empty tuple
                /\ stack' = [stack EXCEPT ![Len(stack)].pc = "raised"]
                /\ pending' = "IndexError"
                /\ UNCHANGED delivered
           ELSE IF IsSuppressed(m.args, Top._suppress)
           THEN /\ stack' = next
                /\ UNCHANGED << pending, delivered >>
           ELSE LET e == Emit(add_message[turn],
                              [next EXCEPT ![Len(stack)].replayed = Append(@, m)],
                              delivered[turn], << m >>)
                IN  /\ stack' = e.stack
                    /\ delivered' = [delivered EXCEPT ![turn] = e.delivered]
                    /\ UNCHANGED pending
    /\ UNCHANGED << files, msgs_store, current_file, phase, nreg, loaded, methods,
                    add_message, call, turn, result, ran, scopes >>

\* Suppress.__exit__ ends, having replayed every message or raised; it returns
\* None, so an exception of the with block goes on to the caller.
ExitReturn ==
    /\ Running
    /\ stack # << >>
    /\ \/ Top.pc = "raised"
       \/ Top.pc = "replay" /\ Top.k > Len(Top.buffer)
    /\ Return(turn, SubSeq(stack, 1, Len(stack) - 1), pending)
    /\ UNCHANGED << files, msgs_store, current_file, phase, nreg, loaded, methods,
                    add_message, call, delivered, ran, scopes >>

Next ==
    \/ \E l \in Linters : Register(l)
    \/ StartLint
    \/ \E f \in Files : SetCurrentFile(f)
    \/ \E a \in Attrs : \E n \in Nodes(a[1]) : HostCall(a, n)
    \/ CallOriginal
    \/ DoSuppressCall
    \/ ExitRestore
    \/ ExitReplay
    \/ ExitReturn

Spec == Init /\ [][Next]_vars

(***************************************************************************)
(* Vocabulary of the properties.                                           *)
(***************************************************************************)
Augmented == Linters \ {0}
Finished(l) == phase = "lint" /\ call # Nothing /\ result[l] # "none"
CalledAttr == << call.checker, call.method >>
FrameEnded(f) == f.pc = "raised" \/ (f.pc = "replay" /\ f.k > Len(f.buffer))

\* the (rule, pattern) pairs of a table whose entries are pattern = "rule, ..."
RulesOf(entries) ==
    UNION { { << Strip(r), entries[i].key >> : r \in Range(Split(entries[i].value)) } :
            i \in 1..Len(entries) }
\* the table the linter was registered with
TableOf(l) ==
    IF loaded[l].pyproject = Nothing THEN << >>
    ELSE files[Resolve(loaded[l].pyproject)].entries
\* a rule identifier with its aliases: message id and symbol of its definition
Aliases(rule) ==
    {rule} \cup UNION { {d.msgid, d.symbol} :
                        d \in { x \in MessageDefinitions : rule \in {x.msgid, x.symbol} } }
Select(ms, ids) == SelectSeq(ms, LAMBDA m : MsgIdOf(m) \in ids)

(***************************************************************************)
(* C1.  Scope safety: when the original check logic raises inside a        *)
(* suppression scope, linter.add_message is back to what it was before the *)
(* scope was entered by the time the failure leaves the scope.  Stated for *)
(* every exit: once the scope of frame i has run the first statement of    *)
(* __exit__, linter.add_message is the entry point saved on entry, which   *)
(* is that of the enclosing scope (frame i - 1) or the host's own (0); and *)
(* a linter no callback is running on has the host's own.                  *)
(***************************************************************************)
C1_ScopeSafety ==
    /\ \A l \in Linters : (l # turn \/ stack = << >>) => add_message[l] = 0
    /\ Running =>
         \A i \in 1..Len(stack) :
            /\ stack[i]._orig_add_message = i - 1
            /\ stack[i].pc \in {"replay", "raised"} => add_message[turn] = i - 1
            /\ stack[i].pc \in {"chain", "exit"} => add_message[turn] = i

\* the check logic raised under two nested scopes and the failure reached the host
C1_Witness ==
    \E l \in Augmented :
        /\ Finished(l)
        /\ result[l] = "CheckError"
        /\ Len(methods[l][CalledAttr]) >= 2
        /\ call.node.emits # << >>
        /\ add_message[l] = 0

(***************************************************************************)
(* C5.  Idempotence of registration: a linter on which register was called *)
(* twice (or more) with the same manifest delivers to the host's own       *)
(* add_message, for the same callback on the same node of the same file,   *)
(* the same sequence as the linter on which it was called once, and the    *)
(* callback ends the same way.                                             *)
(***************************************************************************)
C5_RegisterTwiceAsOnce ==
    \A l \in Augmented :
        (l >= 2 /\ Finished(l)) =>
            /\ delivered[l] = delivered[1]
            /\ result[l] = result[1]

\* a doubly wrapped visit in a matching file dropped a message and delivered another
C5_Witness ==
    /\ Finished(2)
    /\ Len(methods[1][CalledAttr]) >= 1
    /\ Len(methods[2][CalledAttr]) = 2 * Len(methods[1][CalledAttr])
    /\ delivered[2] # << >>
    /\ delivered[2] # delivered[0]
    /\ ran[2] = 1

(***************************************************************************)
(* C6.  Resolver fallback: when the message store rejects the configured   *)
(* rule identifier (UnknownMessageError), DoSuppress.symbols gives the     *)
(* list holding just that string, which is what the scope suppresses, and  *)
(* no error reaches the visit: the call goes on to chain().                *)
(***************************************************************************)
StoreRejects(store, id) ==
    /\ store.api # {}
    /\ \A m \in store.api : \A d \in store.known[m] : id # d.msgid /\ id # d.symbol

C6_ResolverFallback ==
    /\ pending # "UnknownMessageError"
    /\ \A l \in Linters : result[l] # "UnknownMessageError"
    /\ Running =>
         \A i \in 1..Len(stack) :
            LET id == Layers[stack[i].layer].message_id_or_symbol
            IN  (stack[i].test /\ StoreRejects(msgs_store, id)) =>
                    /\ stack[i]._suppress = << id >>
                    /\ (i = Len(stack) /\ stack[i].buffer = << >>
                          /\ stack[i].pc \in {"chain", "exit"})
                       => (stack[i].pc = "chain" \/ ran[turn] > 0)

\* a scope in a matching file whose rule the store does not know is about to chain
C6_Witness ==
    /\ Running
    /\ stack # << >>
    /\ Top.test
    /\ StoreRejects(msgs_store, Layers[Top.layer].message_id_or_symbol)
    /\ Top.pc = "chain"
    /\ Top._suppress = << Layers[Top.layer].message_id_or_symbol >>

(***************************************************************************)
(* C8.  A manifest that is found but has no [tool.pylint-per-file-ignores] *)
(* table makes register fail with KeyError, before anything is installed:  *)
(* the checkers' methods are as they were.  (register is not called again  *)
(* on a linter after it failed, so "as they were" is the unwrapped         *)
(* methods when the first call fails.)                                     *)
(***************************************************************************)
HasTable(doc) == doc.tool /\ doc.table

C8_MissingTable ==
    \A l \in Linters :
        (nreg[l] >= 1 /\ loaded[l].pyproject # Nothing
            /\ ~HasTable(files[Resolve(loaded[l].pyproject)])) =>
                /\ loaded[l].exc = "KeyError"
                /\ nreg[l] = 1
                /\ methods[l] = Unwrapped

\* register failed with KeyError on a manifest that has [tool] but not the table
C8_Witness ==
    \E l \in Linters :
        /\ nreg[l] >= 1
        /\ loaded[l].exc = "KeyError"
        /\ loaded[l].pyproject # Nothing
        /\ files[Resolve(loaded[l].pyproject)] = DocNoTable

(***************************************************************************)
(* C2.  In a file that matches a pattern configured for rule R, nothing    *)
(* whose identifier is R or an alias of R reaches the host's own           *)
(* add_message, whichever callback of the checker emits it.                *)
(***************************************************************************)
SuppressedIn(l, file) ==
    UNION { Aliases(rp[1]) : rp \in { x \in RulesOf(TableOf(l)) : IsFile(x[2], file) } }

C2_NoConfiguredRuleDelivered ==
    \A l \in Augmented :
        phase = "lint" => Select(delivered[l], SuppressedIn(l, current_file)) = << >>

(***************************************************************************)
(* C3.  In a file that matches no pattern configured for rule R, the       *)
(* diagnostics of R reach the host's own add_message as they do on the     *)
(* unaugmented linter for the same callback on the same node: the same     *)
(* messages with the same arguments in the same order, however many        *)
(* augmentation layers are installed.                                      *)
(***************************************************************************)
Matching(l, rule, file) ==
    \E rp \in RulesOf(TableOf(l)) : rp[1] \in Aliases(rule) /\ IsFile(rp[2], file)

C3_UnmatchedAsUnaugmented ==
    \A l \in Augmented :
        Finished(l) =>
            \A rp \in RulesOf(TableOf(l)) :
                ~Matching(l, rp[1], current_file) =>
                    Select(delivered[l], Aliases(rp[1])) = Select(delivered[0], Aliases(rp[1]))

PositionalNode == \A j \in 1..Len(call.node.emits) : call.node.emits[j].args # << >>

Ancestors(file) == Parents(Resolve(file))

C7_NearestAncestor ==
    \A l \in Linters :
        nreg[l] >= 1 =>
            LET anc == Ancestors(loaded[l].src)
                hits == { i \in 1..Len(anc) :
                            anc[i] \in DOMAIN files /\ files[anc[i]] # Nothing }
            IN  IF hits = {}
                THEN loaded[l].exc = "ValueError"
                ELSE /\ loaded[l].exc # "ValueError"
                     /\ loaded[l].pyproject # Nothing
                     /\ Resolve(loaded[l].pyproject)
                           = anc[CHOOSE i \in hits : \A j \in hits : i <= j]

\* The runs of find_pyproject: any of the directories may hold a manifest, the
\* analysed file is named by a relative or an absolute path.
FindFiles ==
    { FileFoo, Resolve(FileFoo),
      RelPath(<< <<"bar", ".py">> >>), AbsPath(<< <<"bar", ".py">> >>),
      Resolve(FileBaz) }
FindFileSystems == [Dirs -> {Nothing, DocOne, DocNoTable}]

InitFind ==
    /\ files \in FindFileSystems
    /\ msgs_store = StoreCurrent
    /\ current_file \in FindFiles
    /\ InitLinters

NextFind == \E l \in Linters : Register(l)

SpecFind == InitFind /\ [][NextFind]_vars

(***************************************************************************)
(* C9.  The scope treats the signature of an emission as opaque: whatever  *)
(* the split between positional and keyword arguments, the exit of the     *)
(* scope does not raise, and each buffered message is dropped as           *)
(* suppressed or replayed with the arguments it was emitted with.          *)
(***************************************************************************)
C9_OpaqueSignature ==
    Running =>
        \A i \in 1..Len(stack) :
            /\ stack[i].pc # "raised"
            /\ Range(stack[i].replayed) \subseteq Range(stack[i].buffer)
            /\ FrameEnded(stack[i]) =>
                 \A j \in 1..Len(stack[i].buffer) :
                    \/ MsgIdOf(stack[i].buffer[j]) \in Range(stack[i]._suppress)
                    \/ stack[i].buffer[j] \in Range(stack[i].replayed)

(***************************************************************************)
(* C10.  At the exit of a scope the entry point is restored first and the  *)
(* buffer is then replayed through it in emission order: what the restored *)
(* entry point (the enclosing scope's buffer, or the host) has received    *)
(* when __exit__ ends is the buffer without the messages whose identifier  *)
(* is in the suppression set, each of the others once.                     *)
(***************************************************************************)
NotSuppressed(f) ==
    SelectSeq(f.buffer, LAMBDA m : MsgIdOf(m) \notin Range(f._suppress))

C10_ReplayInOrder ==
    Running =>
        \A i \in 1..Len(stack) :
            FrameEnded(stack[i]) =>
                /\ add_message[turn] = stack[i]._orig_add_message
                /\ stack[i].replayed = NotSuppressed(stack[i])
                /\ IF i = 1 THEN delivered[turn] = stack[i].replayed
                   ELSE stack[i - 1].buffer = stack[i].replayed

(***************************************************************************)
(* C11.  While a suppression scope is active no emission takes effect:     *)
(* from the entry of the outermost scope to its exit (the restoring        *)
(* statement of its __exit__) linter.add_message is the stand-in of an     *)
(* active scope and the host's own add_message has received nothing, also  *)
(* while inner scopes exit and replay.                                     *)
(***************************************************************************)
C11_NoEmissionWhileActive ==
    (Running /\ stack # << >> /\ stack[1].pc \in {"chain", "called", "exit"}) =>
        /\ add_message[turn] \in 1..Len(stack)
        /\ delivered[turn] = << >>

\* an inner scope has replayed its buffer and the enclosing scope captured it
C11_Witness ==
    /\ Running
    /\ Len(stack) >= 2
    /\ FrameEnded(stack[2])
    /\ stack[2].replayed # << >>
    /\ stack[1].pc = "called"
    /\ stack[1].buffer = stack[2].replayed
    /\ delivered[turn] = << >>

(***************************************************************************)
(* C12.  When the original check logic raises after emitting, each scope   *)
(* around it still replays, in order, every buffered message that is not   *)
(* suppressed to the restored entry point, and the failure of the check    *)
(* goes on to the host.                                                    *)
(***************************************************************************)
C12_AbnormalExitReplays ==
    /\ Running =>
         \A i \in 1..Len(stack) :
            (call.node.raises /\ ran[turn] >= 1 /\ FrameEnded(stack[i])) =>
                /\ stack[i].replayed = NotSuppressed(stack[i])
                /\ IF i = 1 THEN delivered[turn] = stack[i].replayed
                   ELSE stack[i - 1].buffer = stack[i].replayed
                /\ pending = "CheckError"
    /\ \A l \in Augmented :
         (Finished(l) /\ call.node.raises /\ ran[l] >= 1) => result[l] = "CheckError"

(***************************************************************************)
(* C13, as the specification states it.  On a linter on which register    *)
(* was called once, at most one suppression scope is active at any moment, *)
(* and a host invocation of a wrapped visit callback enters exactly one    *)
(* scope, whatever the manifest.                                           *)
(***************************************************************************)
C13_OneScopePerVisit ==
    /\ (Running /\ turn = 1) => Len(stack) <= 1
    /\ (Finished(1) /\ methods[1][CalledAttr] # << >>) => scopes[1] = 1

(***************************************************************************)
(* C13, amended.  A host invocation of a visit callback enters one scope   *)
(* per augmentation layer of the callback, nested: at most that many are   *)
(* active at once, exactly that many are entered when the original method  *)
(* is reached, and a callback has one layer per occurrence in the manifest *)
(* of a rule its checker owns and per call of register.                    *)
(***************************************************************************)
\* the (rule, pattern) pairs of a table, in the order register goes through them
RECURSIVE RuleSeq(_)
RuleSeq(entries) ==
    IF entries = << >> THEN << >>
    ELSE LET rules == Split(Head(entries).value)
         IN  [ i \in 1..Len(rules) |-> << Strip(rules[i]), Head(entries).key >> ]
             \o RuleSeq(Tail(entries))
\* those of the rules of a checker
OwnedBy(checker, entries) ==
    SelectSeq(RuleSeq(entries), LAMBDA rp : get_checker_by_msg(rp[1]) = checker)

C13_OneScopePerLayer ==
    /\ Running => Len(stack) <= Len(Layers)
    /\ \A l \in Linters :
         Finished(l) =>
            /\ scopes[l] <= Len(methods[l][CalledAttr])
            /\ ran[l] >= 1 => scopes[l] = Len(methods[l][CalledAttr])
            /\ Len(methods[l][CalledAttr])
                  = IF startswith_visit(call.method)
                    THEN l * Len(OwnedBy(call.checker, TableOf(l)))
                    ELSE 0

\* one registration, two rules of one checker: a visit entered two scopes
C13_Witness ==
    /\ Finished(1)
    /\ Len(OwnedBy(call.checker, TableOf(1))) = 2
    /\ scopes[1] = 2
    /\ ran[1] = 1

(***************************************************************************)
(* C14.  augment_all_visit wraps, on the checker that owns the rule, the   *)
(* attributes whose name begins with "visit" and nothing else: after the   *)
(* calls register made, a visit attribute of a checker carries one         *)
(* DoSuppress per rule of the manifest that the checker owns, in manifest  *)
(* order and once per register call; any other attribute, and any          *)
(* attribute of a checker owning none of the rules, is as it was.  The     *)
(* continuation a wrapper hands to its decision function runs what the     *)
(* attribute was before that wrapper was installed.                        *)
(***************************************************************************)
RECURSIVE Times(_, _)
Times(s, k) == IF k = 0 THEN << >> ELSE s \o Times(s, k - 1)

C14_AugmentAllVisitFrame ==
    /\ \A l \in Linters : \A a \in Attrs :
         LET owned == OwnedBy(a[1], TableOf(l))
         IN  methods[l][a] =
                IF startswith_visit(a[2])
                THEN Times([ i \in 1..Len(owned) |-> DoSuppress(owned[i][1], owned[i][2]) ],
                           nreg[l])
                ELSE << >>
    /\ Running => \A i \in 1..Len(stack) : stack[i].layer = Len(Layers) - i + 1

\* register wrapped the visit method of checker A and left its leave method
\* and the methods of checker B alone
C14_Witness ==
    \E l \in Augmented :
        /\ nreg[l] = l
        /\ methods[l][<< "A", VisitFunctionDef >>] # << >>
        /\ methods[l][<< "A", LeaveFunctionDef >>] = << >>
        /\ methods[l][<< "B", VisitClassDef >>] = << >>

(***************************************************************************)
(* C15.  The resolver uses the first lookup method the store has, in the   *)
(* order check_message_id, get_message_definition,                         *)
(* get_message_definitions, and no other: what a scope suppresses in a     *)
(* matching file is the message id and the symbol of each definition that  *)
(* method returns for the rule, without the None ones; with a store that   *)
(* has none of the three the resolver raises ValueError, the original      *)
(* method is not run and the error reaches the host.                       *)
(***************************************************************************)
LookupOrder == << "check_message_id", "get_message_definition", "get_message_definitions" >>
FirstOffered(store) ==
    LookupOrder[CHOOSE i \in 1..Len(LookupOrder) :
                   /\ LookupOrder[i] \in store.api
                   /\ \A j \in 1..(i - 1) : LookupOrder[j] \notin store.api]
AliasesOf(defs) == UNION { {d.msgid, d.symbol} : d \in defs } \ {NoneStr}

C15_ResolverOrder ==
    /\ Running =>
         \A i \in 1..Len(stack) :
            LET id == Layers[stack[i].layer].message_id_or_symbol
            IN  stack[i].test =>
                  IF msgs_store.api = {}
                  THEN /\ stack[i]._suppress = << >>
                       /\ stack[i].pc \notin {"chain", "called"}
                       /\ pending = "ValueError"
                       /\ ran[turn] = 0
                  ELSE LET m == FirstOffered(msgs_store)
                           defs == { d \in msgs_store.known[m] : id \in {d.msgid, d.symbol} }
                       IN  defs # {} =>
                              /\ NoneStr \notin Range(stack[i]._suppress)
                              /\ IF m = "get_message_definitions"
                                 THEN Range(stack[i]._suppress) = AliasesOf(defs)
                                 ELSE \E d \in defs :
                                         Range(stack[i]._suppress) = AliasesOf({d})
    /\ \A l \in Linters :
         ( /\ Finished(l)
           /\ msgs_store.api = {}
           /\ \E j \in 1..Len(methods[l][CalledAttr]) :
                 IsFile(methods[l][CalledAttr][j].file_string, current_file) )
         => result[l] = "ValueError"

\* a store with all three methods: the scope suppresses what check_message_id
\* knows of W0611, a definition without symbol
C15_Witness ==
    /\ Running
    /\ stack # << >>
    /\ Top.test
    /\ Top.pc = "chain"
    /\ msgs_store = StoreAllThree
    /\ Layers[Top.layer].message_id_or_symbol = Id2
    /\ Top._suppress = << Id2 >>

\* The runs of the resolver: the manifests with rules to resolve, the stores
\* of every version.
InitResolve ==
    /\ files \in { OnlyAt(Cwd, DocOne), OnlyAt(Cwd, DocTwo) }
    /\ msgs_store \in ResolverStores
    /\ current_file = FileFoo
    /\ InitLinters

SpecResolve == InitResolve /\ [][Next]_vars

(***************************************************************************)
(* C16.  The match is decided at each visit against linter.current_file as *)
(* it is then, not as it was when register ran: with the augmentations     *)
(* installed once, in whichever file the session is now, a visit of the    *)
(* checker owning rule R delivers no diagnostic emitted under the          *)
(* identifier R when the file matches the pattern configured for R, and    *)
(* those diagnostics as the unaugmented linter does when the file matches  *)
(* no pattern configured for R.                                            *)
(***************************************************************************)
C16_MatchAtVisit ==
    /\ Running =>
         \A i \in 1..Len(stack) :
            stack[i].test = IsFile(Layers[stack[i].layer].file_string, current_file)
    /\ \A l \in Augmented :
         (Finished(l) /\ startswith_visit(call.method)) =>
            \A rp \in RulesOf(TableOf(l)) :
                get_checker_by_msg(rp[1]) = call.checker =>
                    IF Matching(l, rp[1], current_file)
                    THEN IsFile(rp[2], current_file) =>
                            Select(delivered[l], {rp[1]}) = << >>
                    ELSE Select(delivered[l], {rp[1]}) = Select(delivered[0], {rp[1]})

(***************************************************************************)
(* C17, as the specification states it.  A host invocation of a wrapped    *)
(* visit callback runs the original method exactly once, whether or not    *)
(* the file matches and however many layers are stacked.                   *)
(***************************************************************************)
C17_OriginalRunsOnce ==
    \A l \in Augmented :
        (Finished(l) /\ methods[l][CalledAttr] # << >>) => ran[l] = 1

(***************************************************************************)
(* C17, amended.  A host invocation of a wrapped visit callback runs the   *)
(* original method exactly once, whether or not the file matches and       *)
(* however many layers are stacked, unless the resolver raises in a layer: *)
(* with a store that has no lookup method and a file that matches the      *)
(* pattern of a layer, the original method is not run and ValueError       *)
(* reaches the host.  It never runs twice.                                 *)
(***************************************************************************)
ResolverRaises(l) ==
    /\ msgs_store.api = {}
    /\ \E j \in 1..Len(methods[l][CalledAttr]) :
          IsFile(methods[l][CalledAttr][j].file_string, current_file)

C17_OriginalRunsOnceUnlessResolverRaises ==
    \A l \in Linters :
        /\ ran[l] <= 1
        /\ Finished(l) =>
              IF ResolverRaises(l)
              THEN ran[l] = 0 /\ result[l] = "ValueError"
              ELSE ran[l] = 1 /\ result[l] # "ValueError"

\* a visit under several layers, one matching the file and one not, ran the
\* original method once
C17_Witness ==
    \E l \in Augmented :
        /\ Finished(l)
        /\ ran[l] = 1
        /\ \E j, k \in 1..Len(methods[l][CalledAttr]) :
              /\ IsFile(methods[l][CalledAttr][j].file_string, current_file)
              /\ ~IsFile(methods[l][CalledAttr][k].file_string, current_file)

(***************************************************************************)
(* C18.  Suppression does not leak from one visit into another: a scope    *)
(* whose decision function did not call suppress() has an empty            *)
(* suppression set whatever was suppressed in earlier visits, and a visit  *)
(* none of whose layers calls suppress() delivers every message the        *)
(* original method emits, as the unaugmented linter does.                  *)
(***************************************************************************)
C18_NoLeakBetweenVisits ==
    /\ Running =>
         \A i \in 1..Len(stack) : ~stack[i].test => stack[i]._suppress = << >>
    /\ \A l \in Augmented :
         ( /\ Finished(l)
           /\ \A j \in 1..Len(methods[l][CalledAttr]) :
                 ~IsFile(methods[l][CalledAttr][j].file_string, current_file) )
         => delivered[l] = delivered[0]

(***************************************************************************)
(* C19.  Suppression is rule-specific: of what the original method emits   *)
(* in a visit, every message whose identifier is not an alias of a rule    *)
(* configured for a pattern the file matches is delivered, in the order    *)
(* of emission.                                                            *)
(***************************************************************************)
C19_RuleSpecific ==
    \A l \in Augmented :
        (Finished(l) /\ ran[l] >= 1) =>
            LET others == { MsgIdOf(m) : m \in Range(call.node.emits) }
                             \ SuppressedIn(l, current_file)
            IN  Select(delivered[l], others) = Select(call.node.emits, others)

(***************************************************************************)
(* C20.  A rule of the manifest that no checker owns is passed over:       *)
(* register raises nothing, no method of any checker is wrapped on behalf  *)
(* of that rule, and the rules after it are installed on their checkers.   *)
(***************************************************************************)
Owns(checker, rule) == \E d \in msgs(checker) : rule \in {d.msgid, d.symbol}
Unowned(rule) == \A c \in Range(Checkers) : ~Owns(c, rule)

C20_UnownedRuleIgnored ==
    \A l \in Linters :
        ( /\ nreg[l] >= 1
          /\ loaded[l].pyproject # Nothing
          /\ HasTable(files[Resolve(loaded[l].pyproject)]) ) =>
            /\ loaded[l].exc = "none"
            /\ \A a \in Attrs : \A i \in 1..Len(methods[l][a]) :
                  Owns(a[1], methods[l][a][i].message_id_or_symbol)
            /\ \A rp \in RulesOf(TableOf(l)) :
                  ~Unowned(rp[1]) =>
                     \E a \in Attrs : /\ Owns(a[1], rp[1])
                                      /\ DoSuppress(rp[1], rp[2]) \in Range(methods[l][a])

\* the manifest "foo/.*\.py" = "X9999,C0114": register returned, the visit
\* method of checker A has the wrapper of C0114 and none of X9999
C20_Witness ==
    \E l \in Augmented :
        /\ nreg[l] = l
        /\ loaded[l].exc = "none"
        /\ TableOf(l) = DocUnowned.entries
        /\ \E rp \in RulesOf(TableOf(l)) : Unowned(rp[1])
        /\ methods[l][<< "A", VisitFunctionDef >>]
              = Times(<< DoSuppress(Id1, PatFoo) >>, l)
        /\ methods[l][<< "B", VisitClassDef >>] = << >>

====
